---- MODULE Spec2Model ----
(***************************************************************************)
(* Session lifecycle, file synchronisation and rate limiting of            *)
(* lean_lsp_mcp:                                                           *)
(* client_utils.py (startup_client, setup_client_for_file), file_utils.py  *)
(* (get_relative_file_path, update_file) and server.py (app_lifespan,      *)
(* rate_limited, lsp_build, diagnostic_messages, run_code, leansearch,     *)
(* state_search).                                                          *)
(*                                                                         *)
(* Spec: requests, rebuilds and edits one at a time.  RateSpec: the        *)
(* rate-limited tools under a clock.  RunSpec: run_code between requests   *)
(* and rebuilds.  ConcSpec: two requests whose handlers interleave.        *)
(*                                                                         *)
(* A path is a sequence of components; an absolute path starts with the    *)
(* component "/".  The empty sequence is the empty string, and stands for   *)
(* Python's None where the code tests a path for truth.                    *)
(***************************************************************************)
EXTENDS Integers, Sequences, FiniteSets, TLC

\* ---------------------------------------------------------------- bounds
MaxConns == 2     \* language-server processes started in one run
MaxTime == 60     \* seconds the clock runs for

\* ------------------------------------------------------------ file system
NoPath == <<>>
NoClient == 0
Missing == "missing"
\* a file that exists and that open() refuses
Unreadable == "unreadable"

DirP == <<"/", "p">>
DirA == <<"/", "p", "a">>
DirAB == <<"/", "p", "a", "b">>
DirR == <<"/", "r">>
DirQ == <<"/", "q">>
Dirs == {<<"/">>, DirP, DirA, DirAB, DirR, DirQ}

\* The directories that hold a lean-toolchain file: /p/a/b/g.lean has two marked
\* ancestors, /r/h.lean one, /q/x.lean none.
Toolchains == {DirP, DirA, DirR}

FileG == <<"/", "p", "a", "b", "g.lean">>
FileH == <<"/", "r", "h.lean">>
FileX == <<"/", "q", "x.lean">>
FileRel == <<"b", "g.lean">>
Files == {FileG, FileH, FileX}
Editable == {FileG}
Requested == Files \cup {FileRel}

Contents == {"c1", "c2"}
Cwd == DirQ

\* ----------------------------------------------------------- rate limits
\* @rate_limited(category, max_requests=3, per_seconds=30) on the four search tools
max_requests == 3
per_seconds == 30
NetCategories == {"leansearch", "loogle"}
FileCategories == {"lean_state_search", "hammer_premise"}
Categories == NetCategories \cup FileCategories
\* the categories whose tools are called
NetCalled == {"leansearch"}
FileCalled == {"lean_state_search"}
\* what the clock advances by between two requests
Steps == {per_seconds - 1, per_seconds}
SearchRequested == {FileG, FileRel}

VARIABLES
    lean_project_path,    \* AppContext.lean_project_path (NoPath for None)
    client,               \* AppContext.client: a connection id, NoClient for None
    file_content_hashes,  \* AppContext.file_content_hashes: relative path -> hash
    conns,                \* every LeanLSPClient constructed: [project_path, status]
    disk,                 \* file -> content, or Missing
    pc,                   \* "idle", "walk" (inside the upward loop), "down"
    file_path,            \* setup_client_for_file: the argument of the call in progress
    file_dir,             \* setup_client_for_file: the loop variable
    last,                 \* the last completed request: what it did and returned
    synced_content,       \* history: relative path -> the content its last sync read,
                          \* for the paths file_content_hashes holds
    tool,                 \* the tool whose call of setup_client_for_file is in progress
    rate_limit,           \* AppContext.rate_limit: category -> timestamps
    clock,                \* int(time.time()), counted from the start of the run
    rl,                   \* the last call of a rate-limited tool: what the wrapper did
    scratch,              \* the roots whose temp_snippet.lean exists
    threads,              \* requests served at the same time: where each one is
    hash_client,          \* history: relative path -> the client the context held when
                          \* the fingerprint was stored
    pure,                 \* the last call of a function of utils.py: arguments, result
    unretried             \* history: the cached paths whose latest invalidation failed

ratevars == <<rate_limit, clock, rl>>
concvars == <<threads, hash_client>>

vars == <<lean_project_path, client, file_content_hashes, conns, disk,
          pc, file_path, file_dir, last, synced_content, tool, ratevars, scratch,
          concvars, pure, unretried>>

\* ------------------------------------------------------------- os.path
IsAbs(p) == Len(p) > 0 /\ p[1] = "/"

Last(s) == s[Len(s)]
Front(s) == SubSeq(s, 1, Len(s) - 1)

dirname(p) ==
    IF Len(p) = 0 THEN <<>>
    ELSE IF p = <<"/">> THEN p
    ELSE Front(p)

join(a, b) == IF IsAbs(b) THEN b ELSE a \o b

RECURSIVE normfold(_, _)
normfold(acc, rest) ==
    IF rest = <<>> THEN acc
    ELSE LET c == Head(rest) IN
         IF c = ".." THEN
            IF acc = <<"/">> THEN normfold(acc, Tail(rest))
            ELSE IF Len(acc) > 0 /\ Last(acc) # ".." THEN normfold(Front(acc), Tail(rest))
            ELSE normfold(Append(acc, c), Tail(rest))
         ELSE normfold(Append(acc, c), Tail(rest))

normpath(p) == normfold(<<>>, p)

abspath(p) == normpath(join(Cwd, p))

exists(d, p) == abspath(p) \in Dirs \/ (abspath(p) \in Files /\ d[abspath(p)] # Missing)

RECURSIVE commonlen(_, _)
commonlen(a, b) ==
    IF a = <<>> \/ b = <<>> \/ Head(a) # Head(b) THEN 0
    ELSE 1 + commonlen(Tail(a), Tail(b))

RECURSIVE updirs(_)
updirs(n) == IF n = 0 THEN <<>> ELSE <<"..">> \o updirs(n - 1)

relpath(path, start) ==
    LET p == abspath(path)
        s == abspath(start)
        i == commonlen(p, s)
        r == updirs(Len(s) - i) \o SubSeq(p, i + 1, Len(p))
    IN IF r = <<>> THEN <<".">> ELSE r

\* Mutant of hash: the fingerprint ignores the content.
hash_constant(c) == 101

\* hash(file_content): distinct values for the contents explored
hash(c) == IF c = "c1" THEN 101 ELSE 202

\* ------------------------------------------------------------- records
\* The AppContext as a value, so that a helper can return the context it leaves.
Ctx == [lean_project_path |-> lean_project_path, client |-> client,
        file_content_hashes |-> file_content_hashes, conns |-> conns]

\* One observable effect of a handler, in the order the code performs them.
\*   "close"       client.close() on connection conn
\*   "clear"       file_content_hashes.clear()
\*   "clean"       subprocess.run(["lake", "clean"]); flag: it could be launched
\*   "open"        LeanLSPClient(path, initial_build=True); flag: it returned
\*   "open_nobuild" LeanLSPClient(path, initial_build=False); flag: it returned
\*   "invalidate"  client.close_files([path]) on conn; flag: it returned
\*   "query"       client.get_diagnostics(path) on conn; flag: it returned
Ev(kind, conn, path, flag) == [kind |-> kind, conn |-> conn, path |-> path, flag |-> flag]

NoEvents == <<>>

IsLive(cs, id) == id \in 1..Len(cs) /\ cs[id].status = "live"
LiveConns(cs) == {id \in 1..Len(cs) : cs[id].status = "live"}

\* client.close(): the connection's process is terminated. A connection that is
\* closed again after that is "reclosed", however often it happens.
CloseConn(cs, id) ==
    [cs EXCEPT ![id].status = IF @ = "live" THEN "closed" ELSE "reclosed"]

\* LeanLSPClient(project_path, ...) returned: a new live connection.
OpenConn(cs, path) == Append(cs, [project_path |-> path, status |-> "live"])

\* ------------------------------------------------------- file_utils.py
get_relative_file_path(d, project_path, fp) ==
    IF exists(d, fp) THEN relpath(fp, project_path)
    ELSE IF exists(d, join(project_path, fp)) THEN relpath(join(project_path, fp), project_path)
    ELSE IF exists(d, join(Cwd, fp)) THEN relpath(join(Cwd, fp), project_path)
    ELSE NoPath

\* Mutant of get_file_contents: a file that cannot be opened reads as text.
get_file_contents_lenient(d, abs_path) ==
    IF abspath(abs_path) \in Files /\ d[abspath(abs_path)] # Unreadable
    THEN d[abspath(abs_path)] ELSE "c1"

\* get_file_contents(abs_path): the text, or Missing when open() raises.
get_file_contents(d, abs_path) ==
    IF abspath(abs_path) \in Files /\ d[abspath(abs_path)] # Unreadable
    THEN d[abspath(abs_path)] ELSE Missing

\* Mutant of update_file: the fingerprint is stored after the invalidation,
\* inside the try block, so a failed invalidation stores nothing.
update_file_storeafter(c, d, rel_path, okInvalidate) ==
    LET abs_path == join(c.lean_project_path, rel_path)
        file_content == get_file_contents(d, abs_path)
        hashed_file == hash(file_content)
        hashes == c.file_content_hashes
        stored == [p \in DOMAIN hashes \cup {rel_path} |->
                      IF p = rel_path THEN hashed_file ELSE hashes[p]]
    IN IF file_content = Missing
       THEN [ctx |-> c, events |-> NoEvents, raised |-> TRUE, content |-> Missing]
       ELSE IF rel_path \notin DOMAIN hashes
       THEN [ctx |-> [c EXCEPT !.file_content_hashes = stored], events |-> NoEvents,
             raised |-> FALSE, content |-> file_content]
       ELSE IF hashed_file = hashes[rel_path]
       THEN [ctx |-> c, events |-> NoEvents, raised |-> FALSE, content |-> file_content]
       ELSE [ctx |-> IF okInvalidate THEN [c EXCEPT !.file_content_hashes = stored] ELSE c,
             events |-> <<Ev("invalidate", c.client, rel_path, okInvalidate)>>,
             raised |-> FALSE, content |-> file_content]

\* Mutant of update_file: the first sync of a path records nothing.
update_file_norecord(c, d, rel_path, okInvalidate) ==
    LET abs_path == join(c.lean_project_path, rel_path)
        file_content == get_file_contents(d, abs_path)
        hashed_file == hash(file_content)
        hashes == c.file_content_hashes
        stored == [p \in DOMAIN hashes \cup {rel_path} |->
                      IF p = rel_path THEN hashed_file ELSE hashes[p]]
    IN IF file_content = Missing
       THEN [ctx |-> c, events |-> NoEvents, raised |-> TRUE, content |-> Missing]
       ELSE IF rel_path \notin DOMAIN hashes
       THEN [ctx |-> c, events |-> NoEvents, raised |-> FALSE, content |-> file_content]
       ELSE IF hashed_file = hashes[rel_path]
       THEN [ctx |-> c, events |-> NoEvents, raised |-> FALSE, content |-> file_content]
       ELSE [ctx |-> [c EXCEPT !.file_content_hashes = stored],
             events |-> <<Ev("invalidate", c.client, rel_path, okInvalidate)>>,
             raised |-> FALSE, content |-> file_content]

\* Mutant of update_file: a failure of close_files is not caught.
update_file_strict(c, d, rel_path, okInvalidate) ==
    LET abs_path == join(c.lean_project_path, rel_path)
        file_content == get_file_contents(d, abs_path)
        hashed_file == hash(file_content)
        hashes == c.file_content_hashes
        stored == [p \in DOMAIN hashes \cup {rel_path} |->
                      IF p = rel_path THEN hashed_file ELSE hashes[p]]
    IN IF file_content = Missing
       THEN [ctx |-> c, events |-> NoEvents, raised |-> TRUE, content |-> Missing]
       ELSE IF rel_path \notin DOMAIN hashes
       THEN [ctx |-> [c EXCEPT !.file_content_hashes = stored], events |-> NoEvents,
             raised |-> FALSE, content |-> file_content]
       ELSE IF hashed_file = hashes[rel_path]
       THEN [ctx |-> c, events |-> NoEvents, raised |-> FALSE, content |-> file_content]
       ELSE [ctx |-> [c EXCEPT !.file_content_hashes = stored],
             events |-> <<Ev("invalidate", c.client, rel_path, okInvalidate)>>,
             raised |-> ~okInvalidate,
             content |-> IF okInvalidate THEN file_content ELSE Missing]

\* Mutant of update_file: the stored fingerprint is not compared, every sync of a
\* known path invalidates.
update_file_noskip(c, d, rel_path, okInvalidate) ==
    LET abs_path == join(c.lean_project_path, rel_path)
        file_content == get_file_contents(d, abs_path)
        hashed_file == hash(file_content)
        hashes == c.file_content_hashes
        stored == [p \in DOMAIN hashes \cup {rel_path} |->
                      IF p = rel_path THEN hashed_file ELSE hashes[p]]
    IN IF file_content = Missing
       THEN [ctx |-> c, events |-> NoEvents, raised |-> TRUE, content |-> Missing]
       ELSE IF rel_path \notin DOMAIN hashes
       THEN [ctx |-> [c EXCEPT !.file_content_hashes = stored], events |-> NoEvents,
             raised |-> FALSE, content |-> file_content]
       ELSE [ctx |-> [c EXCEPT !.file_content_hashes = stored],
             events |-> <<Ev("invalidate", c.client, rel_path, okInvalidate)>>,
             raised |-> FALSE, content |-> file_content]

\* update_file(ctx, rel_path): [ctx, events, raised, content]
update_file(c, d, rel_path, okInvalidate) ==
    LET abs_path == join(c.lean_project_path, rel_path)
        file_content == get_file_contents(d, abs_path)
        hashed_file == hash(file_content)
        hashes == c.file_content_hashes
        stored == [p \in DOMAIN hashes \cup {rel_path} |->
                      IF p = rel_path THEN hashed_file ELSE hashes[p]]
    IN IF file_content = Missing
       THEN [ctx |-> c, events |-> NoEvents, raised |-> TRUE, content |-> Missing]
       ELSE IF rel_path \notin DOMAIN hashes
       THEN [ctx |-> [c EXCEPT !.file_content_hashes = stored], events |-> NoEvents,
             raised |-> FALSE, content |-> file_content]
       ELSE IF hashed_file = hashes[rel_path]
       THEN [ctx |-> c, events |-> NoEvents, raised |-> FALSE, content |-> file_content]
       ELSE [ctx |-> [c EXCEPT !.file_content_hashes = stored],
             events |-> <<Ev("invalidate", c.client, rel_path, okInvalidate)>>,
             raised |-> FALSE, content |-> file_content]

\* ----------------------------------------------------- client_utils.py
\* Mutant of already_correct: the held client is never recognised.
already_correct_never(c) == FALSE

\* startup_client lines 27-29: the context already holds the client of this root.
already_correct(c) ==
    c.client # NoClient /\ c.conns[c.client].project_path = c.lean_project_path

\* startup_client lines 30-31: drop the client of another root. [ctx, events]
startup_swap(c) ==
    [ctx |-> [c EXCEPT !.conns = CloseConn(c.conns, c.client),
                       !.file_content_hashes = <<>>],
     events |-> <<Ev("close", c.client, NoPath, TRUE), Ev("clear", 0, NoPath, TRUE)>>]

\* Mutant of startup_open: a failed start with a build is not retried.
startup_open_nofallback(c, okBuild, okNoBuild) ==
    LET path == c.lean_project_path
        id == Len(c.conns) + 1
        opened == [c EXCEPT !.conns = OpenConn(c.conns, path), !.client = id]
    IN IF okBuild
       THEN [ctx |-> opened, events |-> <<Ev("open", id, path, TRUE)>>, raised |-> FALSE]
       ELSE [ctx |-> c, events |-> <<Ev("open", 0, path, FALSE)>>, raised |-> TRUE]

\* startup_client lines 33-44: start with a build, and without one when that
\* raises. [ctx, events, raised]
startup_open(c, okBuild, okNoBuild) ==
    LET path == c.lean_project_path
        id == Len(c.conns) + 1
        opened == [c EXCEPT !.conns = OpenConn(c.conns, path), !.client = id]
    IN IF okBuild
       THEN [ctx |-> opened, events |-> <<Ev("open", id, path, TRUE)>>, raised |-> FALSE]
       ELSE IF okNoBuild
       THEN [ctx |-> opened,
             events |-> <<Ev("open", 0, path, FALSE), Ev("open_nobuild", id, path, TRUE)>>,
             raised |-> FALSE]
       ELSE [ctx |-> c,
             events |-> <<Ev("open", 0, path, FALSE), Ev("open_nobuild", 0, path, FALSE)>>,
             raised |-> TRUE]

\* startup_client(ctx): [ctx, events, raised]
startup_client(c, okBuild, okNoBuild) ==
    IF c.lean_project_path = NoPath
    THEN [ctx |-> c, events |-> NoEvents, raised |-> TRUE]
    ELSE IF already_correct(c)
    THEN [ctx |-> c, events |-> NoEvents, raised |-> FALSE]
    ELSE LET sw == IF c.client # NoClient THEN startup_swap(c)
                   ELSE [ctx |-> c, events |-> NoEvents]
             op == startup_open(sw.ctx, okBuild, okNoBuild)
         IN [ctx |-> op.ctx, events |-> sw.events \o op.events, raised |-> op.raised]

\* Mutant of valid_lean_project_path: the marker file is not looked for.
valid_lean_project_path_nomarker(d, path) == exists(d, path)

valid_lean_project_path(d, path) == exists(d, path) /\ abspath(path) \in Toolchains

\* ------------------------------------------------------------- utils.py
\* A string is the sequence of its characters.  A result is a text, one of
\* the error strings the functions return, or an exception that leaves the
\* function.
MaxLen == 4
MaxItems == 3
Alphabet == {"a", "b", "\n"}
Example == <<"a", "b", "c", "\n", "d", "e", "f">>
Texts == UNION {[1..k -> Alphabet] : k \in 0..MaxLen} \cup {Example}
LineNumbers == 0..2
Characters == 0..3
NoColumn == -1
cursor_tag == "<cursor>"

Text(t) == [kind |-> "text", text |-> t]
ErrorValue(msg) == [kind |-> "error", text |-> msg]
Raised(exc) == [kind |-> "raise", text |-> exc]

Min(a, b) == IF a <= b THEN a ELSE b

\* str.splitlines(): the pieces between line breaks, no empty piece after a
\* final line break
RECURSIVE splitlines(_)
splitlines(s) ==
    IF s = <<>> THEN <<>>
    ELSE LET nl == {i \in DOMAIN s : s[i] = "\n"}
         IN IF nl = {} THEN <<s>>
            ELSE LET i == CHOOSE k \in nl : \A j \in nl : k <= j
                 IN <<SubSeq(s, 1, i - 1)>> \o splitlines(SubSeq(s, i + 1, Len(s)))

slice_to_end(s, lo, hi) == SubSeq(s, Min(lo, Len(s)) + 1, Len(s))
\* s[lo:hi] for lo, hi >= 0: both ends are clamped to the length
slice(s, lo, hi) == SubSeq(s, Min(lo, Len(s)) + 1, Min(hi, Len(s)))

\* "\n".join(ls)
RECURSIVE joinlines(_)
joinlines(ls) ==
    IF ls = <<>> THEN <<>>
    ELSE IF Len(ls) = 1 THEN ls[1]
    ELSE ls[1] \o <<"\n">> \o joinlines(Tail(ls))

Position(l, c) == [line |-> l, character |-> c]
Range(sl, sc, el, ec) == [start |-> Position(sl, sc), end |-> Position(el, ec)]

extract_range(content, range) ==
    LET start_line == range.start.line
        start_char == range.start.character
        end_line == range.end.line
        end_char == range.end.character
        lines == splitlines(content)
    IN IF start_line < 0 \/ end_line >= Len(lines)
       THEN ErrorValue("Range out of bounds")
       ELSE IF start_line = end_line
       THEN Text(slice(lines[start_line + 1], start_char, end_char))
       ELSE LET selected_lines == SubSeq(lines, start_line + 1, end_line + 1)
            IN IF selected_lines = <<>>
               THEN Raised("IndexError")          \* selected_lines[0] of an empty list
               ELSE LET first == [selected_lines EXCEPT ![1] = slice(@, start_char, Len(@))]
                        both == [first EXCEPT ![Len(first)] = slice(@, 0, end_char)]
                    IN Text(joinlines(both))

format_line(file_content, line_number, column) ==
    LET lines == splitlines(file_content)
        index == line_number - 1
    IN IF index < 1 \/ index > Len(lines)
       THEN ErrorValue("Line number out of range")
       ELSE IF index >= Len(lines)
       THEN Raised("IndexError")                  \* lines[line_number]
       ELSE LET line == lines[index + 1]
            IN IF column = NoColumn THEN Text(line)
               ELSE IF column - 1 < 0 \/ column - 1 >= Len(lines)
               THEN ErrorValue("Invalid column number")
               ELSE Text(slice(line, 0, column - 1) \o <<cursor_tag>>
                         \o slice(line, column - 1, Len(line)))

at_position_inclusive(d, line, column) ==
    /\ d.range.start.line <= line
    /\ line <= d.range.end.line
    /\ column # NoColumn =>
          d.range.start.character <= column /\ column <= d.range.end.character
at_position(d, line, column) ==
    /\ d.range.start.line <= line
    /\ line <= d.range.end.line
    /\ column # NoColumn =>
          d.range.start.character <= column /\ column < d.range.end.character

filter_diagnostics_by_position(diagnostics, line, column) ==
    SelectSeq(diagnostics, LAMBDA d : at_position(d, line, column))

NoPure == [fn |-> "none", args |-> <<>>, result |-> Text(<<>>)]

\* ------------------------------------------------------------ server.py
\* What a handler leaves behind for inspection: its operation and argument, how it
\* ended (raised: an exception left the handler), what it returned, the effects it
\* had in order, and the context before it ran (pre) and after
\* setup_client_for_file returned (bound_hashes).
Pre(c) == [lean_project_path |-> c.lean_project_path, client |-> c.client,
           file_content_hashes |-> c.file_content_hashes,
           live |-> IsLive(c.conns, c.client)]

Result(op, arg, outcome, raised, rel, content, output, captured, events, pre, bh) ==
    [op |-> op, arg |-> arg, outcome |-> outcome, raised |-> raised, rel |-> rel,
     content |-> content, output |-> output, captured |-> captured,
     events |-> events, pre |-> pre, bound_hashes |-> bh]

NoResult == Result("none", NoPath, "none", FALSE, NoPath, "", "", "", NoEvents,
                   Pre([lean_project_path |-> NoPath, client |-> NoClient,
                        file_content_hashes |-> <<>>, conns |-> <<>>]), <<>>)

\* diagnostic_messages from the return of setup_client_for_file on (lines 203-210):
\* c0 is the context the request started in, su what startup_client returned.
\* [ctx, result]
serve(c0, su, d, fp, rel_path, okInvalidate, okQuery) ==
    LET uf == update_file(su.ctx, d, rel_path, okInvalidate)
        q == Ev("query", uf.ctx.client, rel_path, okQuery)
    IN IF su.raised
       THEN [ctx |-> su.ctx,
             result |-> Result("diagnostic_messages", fp, "start_failed", TRUE, NoPath,
                               "", "", "", su.events, Pre(c0), su.ctx.file_content_hashes)]
       ELSE IF uf.raised
       THEN [ctx |-> uf.ctx,
             result |-> Result("diagnostic_messages", fp, "unreadable", TRUE, rel_path,
                               "", "", "", su.events \o uf.events, Pre(c0),
                               su.ctx.file_content_hashes)]
       ELSE [ctx |-> uf.ctx,
             result |-> Result("diagnostic_messages", fp,
                               IF okQuery THEN "ok" ELSE "query_failed", ~okQuery, rel_path,
                               uf.content, "", "", (su.events \o uf.events) \o <<q>>, Pre(c0),
                               su.ctx.file_content_hashes)]

\* The outcomes of the calls state_search makes after update_file: get_goal raises,
\* it finds no goal, the search service fails, or it answers.
SearchFates == {"query_failed", "no_goals", "net_error", "ok"}

\* state_search (and hammer_premise, which differs in the service it calls) from the
\* return of setup_client_for_file on. [ctx, result]
state_search(op, c0, su, d, fp, rel_path, okInvalidate, fate) ==
    LET uf == update_file(su.ctx, d, rel_path, okInvalidate)
        q == Ev("query", uf.ctx.client, rel_path, fate # "query_failed")
        h == Ev("http", 0, NoPath, fate = "ok")
        ev == (su.events \o uf.events) \o <<q>>
    IN IF su.raised
       THEN [ctx |-> su.ctx,
             result |-> Result(op, fp, "start_failed", TRUE, NoPath,
                               "", "", "", su.events, Pre(c0), su.ctx.file_content_hashes)]
       ELSE IF uf.raised
       THEN [ctx |-> uf.ctx,
             result |-> Result(op, fp, "unreadable", TRUE, rel_path,
                               "", "", "", su.events \o uf.events, Pre(c0),
                               su.ctx.file_content_hashes)]
       ELSE [ctx |-> uf.ctx,
             result |-> Result(op, fp, fate, fate = "query_failed", rel_path, uf.content,
                               "", "",
                               IF fate \in {"net_error", "ok"} THEN ev \o <<h>> ELSE ev,
                               Pre(c0), su.ctx.file_content_hashes)]

\* The outcomes of a handler that ran update_file to its end.
SyncedOutcomes == {"ok", "query_failed", "no_goals", "net_error"}

\* Mutant of rate_limited: a call is refused only above max_requests timestamps.
rate_limited_offbyone(limits, category, maxreq, per, current_time) ==
    LET kept == SelectSeq(limits[category], LAMBDA t : t > current_time - per)
    IN IF Len(kept) > maxreq
       THEN [rate_limit |-> [limits EXCEPT ![category] = kept], admitted |-> FALSE]
       ELSE [rate_limit |-> [limits EXCEPT ![category] = Append(kept, current_time)],
             admitted |-> TRUE]

\* Mutant of rate_limited: the stale timestamps of every category are dropped.
rate_limited_pruneall(limits, category, maxreq, per, current_time) ==
    LET fresh(ts) == SelectSeq(ts, LAMBDA t : t > current_time - per)
        kept == fresh(limits[category])
        pruned == [c \in DOMAIN limits |-> fresh(limits[c])]
    IN IF Len(kept) >= maxreq
       THEN [rate_limit |-> pruned, admitted |-> FALSE]
       ELSE [rate_limit |-> [pruned EXCEPT ![category] = Append(kept, current_time)],
             admitted |-> TRUE]

\* Mutant of rate_limited: stale timestamps are counted out but not dropped.
rate_limited_noprune(limits, category, maxreq, per, current_time) ==
    LET kept == SelectSeq(limits[category], LAMBDA t : t > current_time - per)
    IN IF Len(kept) >= maxreq
       THEN [rate_limit |-> limits, admitted |-> FALSE]
       ELSE [rate_limit |-> [limits EXCEPT ![category] = Append(@, current_time)],
             admitted |-> TRUE]

\* Mutant of rate_limited: a refused call is recorded too.
rate_limited_recordall(limits, category, maxreq, per, current_time) ==
    LET kept == SelectSeq(limits[category], LAMBDA t : t > current_time - per)
    IN [rate_limit |-> [limits EXCEPT ![category] = Append(kept, current_time)],
        admitted |-> Len(kept) < maxreq]

\* Mutant of rate_limited: an admitted call is let through without its timestamp
\* being appended before the tool runs.
rate_limited_norecord(limits, category, maxreq, per, current_time) ==
    LET kept == SelectSeq(limits[category], LAMBDA t : t > current_time - per)
    IN [rate_limit |-> [limits EXCEPT ![category] = kept], admitted |-> Len(kept) < maxreq]

\* rate_limited.wrapper up to the call of the tool: the timestamps it leaves and
\* whether the tool is called. [rate_limit, admitted]
rate_limited(limits, category, maxreq, per, current_time) ==
    LET kept == SelectSeq(limits[category], LAMBDA t : t > current_time - per)
    IN IF Len(kept) >= maxreq
       THEN [rate_limit |-> [limits EXCEPT ![category] = kept], admitted |-> FALSE]
       ELSE [rate_limit |-> [limits EXCEPT ![category] = Append(kept, current_time)],
             admitted |-> TRUE]

\* Mutant of build_teardown: the client is closed but the hashes are kept.
build_teardown_keephashes(c) ==
    IF c.client # NoClient
    THEN [ctx |-> [c EXCEPT !.conns = CloseConn(c.conns, c.client)],
          events |-> <<Ev("close", c.client, NoPath, TRUE), Ev("clear", 0, NoPath, TRUE)>>]
    ELSE [ctx |-> c, events |-> NoEvents]

\* Mutant of build_teardown: the hashes are cleared but the client is not closed.
build_teardown_noclose(c) ==
    IF c.client # NoClient
    THEN [ctx |-> [c EXCEPT !.file_content_hashes = <<>>],
          events |-> <<Ev("clear", 0, NoPath, TRUE)>>]
    ELSE [ctx |-> c, events |-> NoEvents]

\* lsp_build lines 136-139: close the client the context holds and clear the
\* hashes. [ctx, events]
build_teardown(c) ==
    IF c.client # NoClient
    THEN [ctx |-> [c EXCEPT !.conns = CloseConn(c.conns, c.client),
                            !.file_content_hashes = <<>>],
          events |-> <<Ev("close", c.client, NoPath, TRUE), Ev("clear", 0, NoPath, TRUE)>>]
    ELSE [ctx |-> c, events |-> NoEvents]

\* lsp_build(ctx, lean_project_path, clean): [ctx, result]
\* cleanRes: "ok", "nonzero" (lake clean exits non-zero) or "nolaunch" (it cannot be
\* started); captured: what OutputCapture holds when the constructor returns or raises.
lsp_build(c, arg, clean, cleanRes, okBuild, captured) ==
    LET path == IF arg = NoPath THEN c.lean_project_path ELSE abspath(arg)
        c1 == [c EXCEPT !.lean_project_path = path]
        build_output == ""
        td == build_teardown(c1)
        c2 == td.ctx
        ev1 == IF clean THEN td.events \o <<Ev("clean", 0, path, cleanRes # "nolaunch")>>
               ELSE td.events
        id == Len(c2.conns) + 1
        c3 == [c2 EXCEPT !.conns = OpenConn(c2.conns, path), !.client = id]
    IN IF clean /\ cleanRes = "nolaunch"
       THEN [ctx |-> c2,
             result |-> Result("lsp_build", arg, "error", FALSE, NoPath, "", build_output, "",
                               ev1, Pre(c), c2.file_content_hashes)]
       ELSE IF okBuild /\ path # NoPath
       THEN [ctx |-> c3,
             result |-> Result("lsp_build", arg, "ok", FALSE, NoPath, "", captured, captured,
                               ev1 \o <<Ev("open", id, path, TRUE)>>, Pre(c),
                               c3.file_content_hashes)]
       ELSE [ctx |-> c2,
             result |-> Result("lsp_build", arg, "error", FALSE, NoPath, "", build_output,
                               captured, ev1 \o <<Ev("open", 0, path, FALSE)>>, Pre(c),
                               c2.file_content_hashes)]

\* Mutant of run_code: the snippet is fingerprinted like a synced file once it is
\* written.
run_code_fingerprinted(c, sc, write, okQuery, okClose, okRemove) ==
    LET root == c.lean_project_path
        rel_path == <<"temp_snippet.lean">>
        res(outcome, raised, events) ==
            Result("run_code", NoPath, outcome, raised, rel_path, "", "", "", events,
                   Pre(c), c.file_content_hashes)
        w == Ev("write", 0, join(root, rel_path), write = "ok")
        q == Ev("query", c.client, rel_path, okQuery)
        cf == Ev("close_files", c.client, rel_path, okClose)
        rm == Ev("remove", 0, join(root, rel_path), okRemove)
        written == sc \cup {root}
        hashes == c.file_content_hashes
        fp == [c EXCEPT !.file_content_hashes =
                  [p \in DOMAIN hashes \cup {rel_path} |->
                      IF p = rel_path THEN hash("c1") ELSE hashes[p]]]
    IN IF root = NoPath
       THEN [ctx |-> c, result |-> res("no_root", FALSE, NoEvents), scratch |-> sc]
       ELSE IF write # "ok"
       THEN [ctx |-> c, result |-> res("write_error", FALSE, <<w>>),
             scratch |-> IF write = "partial" THEN written ELSE sc]
       ELSE IF c.client = NoClient
       THEN [ctx |-> fp, result |-> res("no_client", TRUE, <<w>>), scratch |-> written]
       ELSE IF ~okQuery
       THEN [ctx |-> fp, result |-> res("query_failed", TRUE, <<w, q>>),
             scratch |-> written]
       ELSE IF ~okClose
       THEN [ctx |-> fp, result |-> res("close_files_failed", TRUE, <<w, q, cf>>),
             scratch |-> written]
       ELSE IF ~okRemove
       THEN [ctx |-> fp, result |-> res("remove_error", FALSE, <<w, q, cf, rm>>),
             scratch |-> written]
       ELSE [ctx |-> fp, result |-> res("ok", FALSE, <<w, q, cf, rm>>),
             scratch |-> sc \ {root}]

\* run_code(ctx, code): [ctx, result, scratch]. sc: the roots that hold the scratch
\* file; write: "ok", "noopen" (open raises) or "partial" (the file is created and
\* f.write raises); okQuery, okClose, okRemove: get_diagnostics, close_files and
\* os.remove return.
run_code(c, sc, write, okQuery, okClose, okRemove) ==
    LET root == c.lean_project_path
        rel_path == <<"temp_snippet.lean">>
        res(outcome, raised, events) ==
            Result("run_code", NoPath, outcome, raised, rel_path, "", "", "", events,
                   Pre(c), c.file_content_hashes)
        w == Ev("write", 0, join(root, rel_path), write = "ok")
        q == Ev("query", c.client, rel_path, okQuery)
        cf == Ev("close_files", c.client, rel_path, okClose)
        rm == Ev("remove", 0, join(root, rel_path), okRemove)
        written == sc \cup {root}
    IN IF root = NoPath
       THEN [ctx |-> c, result |-> res("no_root", FALSE, NoEvents), scratch |-> sc]
       ELSE IF write # "ok"
       THEN [ctx |-> c, result |-> res("write_error", FALSE, <<w>>),
             scratch |-> IF write = "partial" THEN written ELSE sc]
       ELSE IF c.client = NoClient
       THEN [ctx |-> c, result |-> res("no_client", TRUE, <<w>>), scratch |-> written]
       ELSE IF ~okQuery
       THEN [ctx |-> c, result |-> res("query_failed", TRUE, <<w, q>>),
             scratch |-> written]
       ELSE IF ~okClose
       THEN [ctx |-> c, result |-> res("close_files_failed", TRUE, <<w, q, cf>>),
             scratch |-> written]
       ELSE IF ~okRemove
       THEN [ctx |-> c, result |-> res("remove_error", FALSE, <<w, q, cf, rm>>),
             scratch |-> written]
       ELSE [ctx |-> c, result |-> res("ok", FALSE, <<w, q, cf, rm>>),
             scratch |-> sc \ {root}]

\* app_lifespan, the finally clause: [ctx, result]
app_lifespan_exit(c) ==
    IF c.client # NoClient
    THEN [ctx |-> [c EXCEPT !.conns = CloseConn(c.conns, c.client)],
          result |-> Result("teardown", NoPath, "ok", FALSE, NoPath, "", "", "",
                            <<Ev("close", c.client, NoPath, TRUE)>>, Pre(c),
                            c.file_content_hashes)]
    ELSE [ctx |-> c,
          result |-> Result("teardown", NoPath, "ok", FALSE, NoPath, "", "", "",
                            NoEvents, Pre(c), c.file_content_hashes)]

\* ---------------------------------------------------------------- actions
\* What the environment can answer to the calls a handler makes. A call that is
\* not made has no outcome: the flag is then fixed, and ignored by the handler.
\* startup_client in context c: the start with a build, and the start without.
StartOutcomes(c) ==
    IF c.lean_project_path = NoPath \/ already_correct(c) THEN {<<TRUE, TRUE>>}
    ELSE {<<TRUE, TRUE>>, <<FALSE, TRUE>>, <<FALSE, FALSE>>}

\* update_file after startup_client returned su: client.close_files
InvalidateOutcomes(su, d, rel_path) ==
    IF ~su.raised /\ update_file(su.ctx, d, rel_path, TRUE).events # NoEvents
    THEN BOOLEAN ELSE {TRUE}

\* the calls after update_file (fates: what they can come to)
QueryOutcomes(su, d, rel_path, fates) ==
    IF ~su.raised /\ ~update_file(su.ctx, d, rel_path, TRUE).raised
    THEN fates ELSE {"ok"}

\* lsp_build: lake clean, the constructor, and what it printed
BuildOutcomes(clean) ==
    {o \in {"ok", "nonzero", "nolaunch"} \X BOOLEAN \X {"", "log"} :
        /\ ~clean => o[1] = "ok"
        /\ o[1] = "nolaunch" => o[2] /\ o[3] = ""}

Install(r) ==
    /\ Len(r.ctx.conns) <= MaxConns
    /\ lean_project_path' = r.ctx.lean_project_path
    /\ client' = r.ctx.client
    /\ file_content_hashes' = r.ctx.file_content_hashes
    /\ conns' = r.ctx.conns
    /\ last' = r.result
    /\ synced_content' =
          [p \in DOMAIN r.ctx.file_content_hashes |->
              IF r.result.outcome \in SyncedOutcomes /\ p = r.result.rel
              THEN r.result.content
              ELSE IF p \in DOMAIN synced_content THEN synced_content[p]
              ELSE Missing]
    /\ unretried' =
          LET ev == r.result.events
              sent(p) == {i \in DOMAIN ev : ev[i].kind = "invalidate" /\ ev[i].path = p}
              cleared == \E i \in DOMAIN ev : ev[i].kind = "clear"
          IN {p \in DOMAIN r.ctx.file_content_hashes :
                 IF sent(p) # {} THEN \E i \in sent(p) : ~ev[i].flag
                 ELSE ~cleared /\ p \in unretried}

\* A request served by a thread of its own: the tool, where it is, and its locals
\* (client, lean_project_path, rel_path).
Threads == {1, 2}
IdleThread == [op |-> "none", pc |-> "idle", client |-> NoClient,
               lean_project_path |-> NoPath, rel |-> NoPath]

\* What the wrapper of a rate-limited tool leaves behind for inspection: the
\* category, whether the tool was called, the timestamps it found, and how the call
\* ended ("limit": the retry-later message; "results"/"error": what a tool that only
\* calls its service returned; "invoked": the tool went on to the session).
NoCall == [category |-> "none", admitted |-> FALSE, before |-> <<>>, outcome |-> "none"]

Init ==
    /\ lean_project_path \in {NoPath, DirA}
    /\ client = NoClient
    /\ file_content_hashes = <<>>
    /\ conns = <<>>
    /\ disk = [f \in Files |-> "c1"]
    /\ pc = "idle"
    /\ file_path = NoPath
    /\ file_dir = NoPath
    /\ last = NoResult
    /\ synced_content = <<>>
    /\ tool = "none"
    /\ rate_limit = [category \in Categories |-> <<>>]
    /\ clock = 0
    /\ rl = NoCall
    /\ scratch = {}
    /\ threads = [t \in Threads |-> IdleThread]
    /\ hash_client = <<>>
    /\ pure = NoPure
    /\ unretried = {}

\* A tool request for fp whose path the bound root resolves
\* (setup_client_for_file lines 72-77, then diagnostic_messages 203-210).
RequestBound(fp) ==
    /\ pc = "idle"
    /\ lean_project_path # NoPath
    /\ LET rel_path == get_relative_file_path(disk, lean_project_path, fp) IN
         /\ rel_path # NoPath
         /\ \E s \in StartOutcomes(Ctx) :
               LET su == startup_client(Ctx, s[1], s[2]) IN
               \E okInvalidate \in InvalidateOutcomes(su, disk, rel_path),
                  fate \in QueryOutcomes(su, disk, rel_path, {"ok", "query_failed"}) :
                  Install(serve(Ctx, su, disk, fp, rel_path, okInvalidate, fate = "ok"))
    /\ UNCHANGED <<disk, pc, file_path, file_dir, tool, ratevars, scratch, concvars, pure>>

\* A tool request that enters the upward search (lines 80-82).
RequestSearch(fp) ==
    /\ pc = "idle"
    /\ \/ lean_project_path = NoPath
       \/ get_relative_file_path(disk, lean_project_path, fp) = NoPath
    /\ pc' = "walk"
    /\ file_path' = fp
    /\ file_dir' = dirname(fp)
    /\ tool' = "diagnostic_messages"
    /\ UNCHANGED <<lean_project_path, client, file_content_hashes, conns, disk, last,
                   synced_content, ratevars, scratch, concvars, pure, unretried>>

\* One test of `while file_dir:` with the loop body, or the return after the loop.
WalkFound ==
    /\ pc = "walk"
    /\ file_dir # <<>>
    /\ valid_lean_project_path(disk, file_dir)
    /\ LET rel_path == get_relative_file_path(disk, file_dir, file_path)
           c1 == [Ctx EXCEPT !.lean_project_path = file_dir]
       IN /\ rel_path # NoPath
          /\ \E s \in StartOutcomes(c1) :
                LET su == startup_client(c1, s[1], s[2]) IN
                \E okInvalidate \in InvalidateOutcomes(su, disk, rel_path),
                   fate \in QueryOutcomes(su, disk, rel_path,
                                          IF tool \in FileCategories THEN SearchFates
                                          ELSE {"ok", "query_failed"}) :
                Install(IF tool \in FileCategories
                        THEN state_search(tool, Ctx, su, disk, file_path, rel_path,
                                          okInvalidate, fate)
                        ELSE serve(Ctx, su, disk, file_path, rel_path, okInvalidate,
                                   fate = "ok"))
    /\ pc' = "idle"
    /\ file_path' = NoPath
    /\ file_dir' = NoPath
    /\ tool' = "none"
    /\ UNCHANGED <<disk, ratevars, scratch, concvars, pure>>

WalkUp ==
    /\ pc = "walk"
    /\ file_dir # <<>>
    /\ ~(/\ valid_lean_project_path(disk, file_dir)
         /\ get_relative_file_path(disk, file_dir, file_path) # NoPath)
    /\ file_dir' = dirname(file_dir)
    /\ UNCHANGED <<lean_project_path, client, file_content_hashes, conns, disk,
                   pc, file_path, last, synced_content, tool, ratevars, scratch, concvars,
                   pure, unretried>>

WalkNone ==
    /\ pc = "walk"
    /\ file_dir = <<>>
    /\ last' = Result(tool, file_path, "invalid_path", FALSE, NoPath,
                      "", "", "", NoEvents, Pre(Ctx), file_content_hashes)
    /\ pc' = "idle"
    /\ file_path' = NoPath
    /\ file_dir' = NoPath
    /\ tool' = "none"
    /\ UNCHANGED <<lean_project_path, client, file_content_hashes, conns, disk,
                   synced_content, ratevars, scratch, concvars, pure, unretried>>

Build(arg, clean) ==
    /\ pc = "idle"
    /\ \E o \in BuildOutcomes(clean) :
          Install(lsp_build(Ctx, arg, clean, o[1], o[2], o[3]))
    /\ UNCHANGED <<disk, pc, file_path, file_dir, tool, ratevars, scratch, concvars, pure>>

Teardown ==
    /\ pc = "idle"
    /\ Install(app_lifespan_exit(Ctx))
    /\ pc' = "down"
    /\ UNCHANGED <<disk, file_path, file_dir, tool, ratevars, scratch, concvars, pure>>

\* The agent edits a file out of band, removes it or makes it unreadable, between
\* two requests.
EditFile(f, v) ==
    /\ pc = "idle"
    /\ v # disk[f]
    /\ disk' = [disk EXCEPT ![f] = v]
    /\ UNCHANGED <<lean_project_path, client, file_content_hashes, conns,
                   pc, file_path, file_dir, last, synced_content, tool, ratevars,
                   scratch, concvars, pure, unretried>>

Next ==
    \/ \E fp \in Requested : RequestBound(fp)
    \/ \E fp \in Requested : RequestSearch(fp)
    \/ WalkFound
    \/ WalkUp
    \/ WalkNone
    \/ \E arg \in {NoPath, DirR}, clean \in BOOLEAN : Build(arg, clean)
    \/ Teardown
    \/ \E f \in Editable, v \in Contents \cup {Missing, Unreadable} : EditFile(f, v)

Spec == Init /\ [][Next]_vars

\* ------------------------------------------------- the rate-limited tools
\* What the wrapper decides for a call of a tool of this category now.
Admit(category) == rate_limited(rate_limit, category, max_requests, per_seconds, clock)

Call(category, outcome) ==
    [category |-> category, admitted |-> Admit(category).admitted,
     before |-> rate_limit[category], outcome |-> outcome]

\* Time passes between two requests.
Tick(d) ==
    /\ pc = "idle"
    /\ clock + d <= MaxTime
    /\ clock' = clock + d
    /\ UNCHANGED <<lean_project_path, client, file_content_hashes, conns, disk,
                   pc, file_path, file_dir, last, synced_content, tool, rate_limit, rl,
                   scratch, concvars, pure, unretried>>

\* A call of a rate-limited tool that the wrapper answers itself (lines 104-105).
Rejected(category) ==
    /\ pc = "idle"
    /\ ~Admit(category).admitted
    /\ rate_limit' = Admit(category).rate_limit
    /\ rl' = Call(category, "limit")
    /\ UNCHANGED <<lean_project_path, client, file_content_hashes, conns, disk,
                   pc, file_path, file_dir, last, synced_content, tool, clock,
                   scratch, concvars, pure, unretried>>

\* leansearch, loogle: an admitted call; the request to the service is inside a
\* try whose except clause returns the error text.
NetSearch(category) ==
    /\ pc = "idle"
    /\ Admit(category).admitted
    /\ rate_limit' = Admit(category).rate_limit
    /\ \E okNet \in BOOLEAN : rl' = Call(category, IF okNet THEN "results" ELSE "error")
    /\ UNCHANGED <<lean_project_path, client, file_content_hashes, conns, disk,
                   pc, file_path, file_dir, last, synced_content, tool, clock,
                   scratch, concvars, pure, unretried>>

\* state_search, hammer_premise: an admitted call for a file the bound root resolves.
FileSearchBound(category, fp) ==
    /\ pc = "idle"
    /\ Admit(category).admitted
    /\ lean_project_path # NoPath
    /\ LET rel_path == get_relative_file_path(disk, lean_project_path, fp) IN
         /\ rel_path # NoPath
         /\ \E s \in StartOutcomes(Ctx) :
               LET su == startup_client(Ctx, s[1], s[2]) IN
               \E okInvalidate \in InvalidateOutcomes(su, disk, rel_path),
                  fate \in QueryOutcomes(su, disk, rel_path, SearchFates) :
                  Install(state_search(category, Ctx, su, disk, fp, rel_path,
                                       okInvalidate, fate))
    /\ rate_limit' = Admit(category).rate_limit
    /\ rl' = Call(category, "invoked")
    /\ UNCHANGED <<disk, pc, file_path, file_dir, tool, clock, scratch, concvars, pure>>

\* state_search, hammer_premise: an admitted call that enters the upward search.
FileSearchWalk(category, fp) ==
    /\ pc = "idle"
    /\ Admit(category).admitted
    /\ \/ lean_project_path = NoPath
       \/ get_relative_file_path(disk, lean_project_path, fp) = NoPath
    /\ pc' = "walk"
    /\ file_path' = fp
    /\ file_dir' = dirname(fp)
    /\ tool' = category
    /\ rate_limit' = Admit(category).rate_limit
    /\ rl' = Call(category, "invoked")
    /\ UNCHANGED <<lean_project_path, client, file_content_hashes, conns, disk, last,
                   synced_content, clock, scratch, concvars, pure, unretried>>

NextRate ==
    \/ \E d \in Steps : Tick(d)
    \/ \E category \in NetCalled \cup FileCalled : Rejected(category)
    \/ \E category \in NetCalled : NetSearch(category)
    \/ \E category \in FileCalled, fp \in SearchRequested :
          FileSearchBound(category, fp)
    \/ \E category \in FileCalled, fp \in SearchRequested :
          FileSearchWalk(category, fp)
    \/ WalkFound
    \/ WalkUp
    \/ WalkNone

RateSpec == Init /\ [][NextRate]_vars

\* ------------------------------------------------------------- run_code
\* run_code: what open/write, get_diagnostics, close_files and os.remove can answer
RunOutcomes(c) ==
    {o \in {"ok", "noopen", "partial"} \X BOOLEAN \X BOOLEAN \X BOOLEAN :
        /\ c.lean_project_path = NoPath => o[1] = "ok"
        /\ (c.lean_project_path = NoPath \/ o[1] # "ok" \/ c.client = NoClient) => o[2]
        /\ ~o[2] => o[3]
        /\ ~o[3] => o[4]}

RunCode ==
    /\ pc = "idle"
    /\ \E o \in RunOutcomes(Ctx) :
          LET r == run_code(Ctx, scratch, o[1], o[2], o[3], o[4])
          IN Install(r) /\ scratch' = r.scratch
    /\ UNCHANGED <<disk, pc, file_path, file_dir, tool, ratevars, concvars, pure>>

\* run_code between requests that bind the root and start, replace or lose the client
NextRun ==
    \/ RunCode
    \/ \E fp \in {FileG, FileRel} : RequestBound(fp)
    \/ \E arg \in {NoPath, DirR} : Build(arg, FALSE)

RunSpec == Init /\ [][NextRun]_vars

\* ------------------------------------------- requests served at the same time
\* The handlers take no lock. A thread runs its handler in steps, and another
\* thread may run between two of them: each step below is a stretch of code that
\* ends at a call that blocks (client.close(), the LeanLSPClient constructor,
\* get_diagnostics) or at the assignment that follows one.
\* diagnostic_messages: setup_client_for_file for a file the bound root resolves,
\* then startup_client lines 20-29.
ReqBegin(t, fp) ==
    /\ pc = "idle"
    /\ threads[t].pc = "idle"
    /\ lean_project_path # NoPath
    /\ LET rel_path == get_relative_file_path(disk, lean_project_path, fp) IN
         /\ rel_path # NoPath
         /\ threads' = [threads EXCEPT ![t] =
               [op |-> "diagnostic_messages",
                pc |-> IF already_correct(Ctx) THEN "sync"
                       ELSE IF client # NoClient THEN "close" ELSE "open",
                client |-> client, lean_project_path |-> lean_project_path,
                rel |-> rel_path]]
    /\ UNCHANGED <<lean_project_path, client, file_content_hashes, conns, disk, pc,
                   file_path, file_dir, last, synced_content, tool, ratevars, scratch,
                   hash_client, pure, unretried>>

\* lsp_build lines 128-137: the root is set and the held client read.
BuildBegin(t, arg) ==
    /\ pc = "idle"
    /\ threads[t].pc = "idle"
    /\ LET path == IF arg = NoPath THEN lean_project_path ELSE abspath(arg) IN
         /\ lean_project_path' = path
         /\ threads' = [threads EXCEPT ![t] =
               [op |-> "lsp_build",
                pc |-> IF client # NoClient THEN "close" ELSE "open",
                client |-> client, lean_project_path |-> path, rel |-> NoPath]]
    /\ UNCHANGED <<client, file_content_hashes, conns, disk, pc, file_path, file_dir,
                   last, synced_content, tool, ratevars, scratch, hash_client, pure,
                   unretried>>

\* client.close() on the client the thread read, and file_content_hashes.clear()
\* (startup_client 30-31, lsp_build 138-139).
CloseOld(t) ==
    /\ threads[t].pc = "close"
    /\ conns' = CloseConn(conns, threads[t].client)
    /\ file_content_hashes' = <<>>
    /\ synced_content' = <<>>
    /\ hash_client' = <<>>
    /\ threads' = [threads EXCEPT ![t].pc = "open"]
    /\ UNCHANGED <<lean_project_path, client, disk, pc, file_path, file_dir, last, tool,
                   ratevars, scratch, pure, unretried>>

\* The LeanLSPClient constructor (startup_client 33-43 with its fallback, lsp_build
\* 145-150): a new client in the thread's local, or the end of the request.
OpenNew(t) ==
    /\ threads[t].pc = "open"
    /\ \/ /\ threads[t].lean_project_path # NoPath
          /\ Len(conns) < MaxConns
          /\ conns' = OpenConn(conns, threads[t].lean_project_path)
          /\ threads' = [threads EXCEPT ![t].pc = "assign", ![t].client = Len(conns) + 1]
       \/ /\ threads' = [threads EXCEPT ![t] = IdleThread]
          /\ UNCHANGED conns
    /\ UNCHANGED <<lean_project_path, client, file_content_hashes, disk, pc, file_path,
                   file_dir, last, synced_content, tool, ratevars, scratch, hash_client,
                   pure, unretried>>

\* ctx.client = client (startup_client 44, lsp_build 153)
Assign(t) ==
    /\ threads[t].pc = "assign"
    /\ client' = threads[t].client
    /\ threads' = [threads EXCEPT ![t] =
          IF threads[t].op = "lsp_build" THEN IdleThread ELSE [@ EXCEPT !.pc = "sync"]]
    /\ UNCHANGED <<lean_project_path, file_content_hashes, conns, disk, pc, file_path,
                   file_dir, last, synced_content, tool, ratevars, scratch, hash_client,
                   pure, unretried>>

\* update_file(ctx, rel_path) on the context as it is now.
Sync(t) ==
    /\ threads[t].pc = "sync"
    /\ LET rel_path == threads[t].rel
           uf == update_file(Ctx, disk, rel_path, TRUE)
           hashes == uf.ctx.file_content_hashes
       IN /\ file_content_hashes' = hashes
          /\ synced_content' =
                [p \in DOMAIN hashes |->
                    IF p = rel_path /\ ~uf.raised
                    THEN disk[abspath(join(lean_project_path, p))]
                    ELSE synced_content[p]]
          /\ hash_client' =
                [p \in DOMAIN hashes |->
                    IF p = rel_path /\ hashes # file_content_hashes THEN client
                    ELSE hash_client[p]]
          /\ threads' = [threads EXCEPT ![t] =
                IF uf.raised THEN IdleThread ELSE [@ EXCEPT !.pc = "query"]]
    /\ UNCHANGED <<lean_project_path, client, conns, disk, pc, file_path, file_dir,
                   last, tool, ratevars, scratch, pure, unretried>>

\* client.get_diagnostics(rel_path) and the return.
Query(t) ==
    /\ threads[t].pc = "query"
    /\ threads' = [threads EXCEPT ![t] = IdleThread]
    /\ UNCHANGED <<lean_project_path, client, file_content_hashes, conns, disk, pc,
                   file_path, file_dir, last, synced_content, tool, ratevars, scratch,
                   hash_client, pure, unretried>>

NextConc ==
    \/ \E t \in Threads : ReqBegin(t, FileG)
    \/ \E t \in Threads, arg \in {NoPath, DirR} : BuildBegin(t, arg)
    \/ \E t \in Threads : CloseOld(t)
    \/ \E t \in Threads : OpenNew(t)
    \/ \E t \in Threads : Assign(t)
    \/ \E t \in Threads : Sync(t)
    \/ \E t \in Threads : Query(t)

ConcSpec == Init /\ [][NextConc]_vars

\* ----------------------------------------------- the functions of utils.py
\* Each action is one call; the arguments are the action's inputs.  The
\* functions keep no state, so a behaviour holds one call.
Diagnostic(id, r) == [message |-> id, range |-> r]
Diagnostics ==
    {Diagnostic("d1", Range(2, 5, 2, 10)),
     Diagnostic("d2", Range(1, 0, 3, 2)),
     Diagnostic("d3", Range(0, 7, 0, 12))}
DiagnosticLists == UNION {[1..k -> Diagnostics] : k \in 0..MaxItems}
Columns == {NoColumn, 0, 5, 7, 10, 12}

FormatLine ==
    /\ pure.fn = "none"
    /\ \E file_content \in Texts, line_number \in 0..MaxLen,
          column \in {NoColumn} \cup (0..MaxLen) :
           /\ pure' = [fn |-> "format_line",
                       args |-> <<file_content, line_number, column>>,
                       result |-> format_line(file_content, line_number, column)]
           /\ UNCHANGED <<lean_project_path, client, file_content_hashes, conns, disk, pc,
                          file_path, file_dir, last, synced_content,
                          tool, ratevars, scratch, concvars, unretried>>

ExtractRange ==
    /\ pure.fn = "none"
    /\ \E content \in Texts, sl \in LineNumbers, el \in LineNumbers,
          sc \in Characters, ec \in Characters :
           /\ pure' = [fn |-> "extract_range",
                       args |-> <<content, Range(sl, sc, el, ec)>>,
                       result |-> extract_range(content, Range(sl, sc, el, ec))]
           /\ UNCHANGED <<lean_project_path, client, file_content_hashes, conns, disk, pc,
                          file_path, file_dir, last, synced_content,
                          tool, ratevars, scratch, concvars, unretried>>

FilterDiagnostics ==
    /\ pure.fn = "none"
    /\ \E diagnostics \in DiagnosticLists, line \in 0..3, column \in Columns :
           /\ pure' = [fn |-> "filter_diagnostics_by_position",
                       args |-> <<diagnostics, line, column>>,
                       result |-> Text(filter_diagnostics_by_position(diagnostics, line, column))]
           /\ UNCHANGED <<lean_project_path, client, file_content_hashes, conns, disk, pc,
                          file_path, file_dir, last, synced_content,
                          tool, ratevars, scratch, concvars, unretried>>

NextPure == FormatLine \/ ExtractRange \/ FilterDiagnostics

PureSpec == Init /\ [][NextPure]_vars

TypeOK ==
    /\ pc \in {"idle", "walk", "down"}
    /\ client \in 0..Len(conns)
    /\ Len(conns) <= MaxConns
    /\ DOMAIN synced_content = DOMAIN file_content_hashes
    /\ file_content_hashes # <<>> => client # NoClient

\* ----------------------------------------------------------- properties
IsPrefix(a, b) == Len(a) <= Len(b) /\ SubSeq(b, 1, Len(a)) = a

\* file lies in the directory tree rooted at root
Beneath(file, root) == IsPrefix(abspath(root), abspath(file))

\* The nearest directory, from dir upward, that holds the marker; NoPath if none does.
RECURSIVE NearestMarked(_)
NearestMarked(dir) ==
    IF dir \in Toolchains THEN dir
    ELSE IF Len(dir) <= 1 THEN NoPath
    ELSE NearestMarked(Front(dir))

Owner(file) == NearestMarked(Front(abspath(file)))

EventsOf(kinds) == {i \in DOMAIN last.events : last.events[i].kind \in kinds}

\* The file the last request was answered for, from the root and the relative path
\* the resolution produced.
ResolvedFile == normpath(join(abspath(lean_project_path), last.rel))

\* C1: with root A bound and fingerprints recorded under it, a request for an
\* existing file of an unrelated marked root B rebinds to B, and none of A's
\* fingerprints is left when the query for that file is issued.
C1_RebindClearsOldRoot ==
    (/\ last.op = "diagnostic_messages"
     /\ EventsOf({"query"}) # {}
     /\ IsAbs(last.arg)
     /\ last.pre.lean_project_path # NoPath
     /\ last.pre.file_content_hashes # <<>>
     /\ ~Beneath(last.arg, last.pre.lean_project_path)
     /\ Owner(last.arg) # NoPath)
    => /\ lean_project_path = Owner(last.arg)
       /\ DOMAIN last.pre.file_content_hashes \cap DOMAIN file_content_hashes = {}

\* C2: at most one language-server connection is live in every reachable state.
C2_AtMostOneLive == Cardinality(LiveConns(conns)) <= 1

\* C2 witness: a second connection is live after the first one was closed.
C2_Witness ==
    /\ Len(conns) = 2
    /\ conns[1].status # "live"
    /\ conns[2].status = "live"
    /\ client = 2

WalkStep == WalkFound \/ WalkUp \/ WalkNone

\* C3: root resolution terminates with none for a path without a marked ancestor:
\* while the upward search for such a path is running, its next step changes the
\* state (so the search is not spinning), and it ends in the 'invalid path' outcome.
C3_ResolutionTerminates ==
    (pc = "walk" /\ Owner(file_path) = NoPath) => ENABLED <<WalkStep>>_vars

\* C4: a resolution that yields (root, relativePath) yields a file beneath root.
C4_ResolvedFileBeneathRoot ==
    (last.op = "diagnostic_messages" /\ last.rel # NoPath)
    => Beneath(ResolvedFile, lean_project_path)

\* C5: with no root bound, resolving an existing file binds the nearest marked
\* ancestor of the file and returns the file's path relative to it.  While the
\* upward search runs, it has not passed that ancestor; when the request is
\* answered, the root is that ancestor and the relative path is the rest of the path
\* (nothing is returned when no session could be started for the new root).
C5_BindsNearestMarkedAncestor ==
    /\ (/\ pc = "walk"
        /\ lean_project_path = NoPath
        /\ IsAbs(file_path)
        /\ exists(disk, file_path)
        /\ Owner(file_path) # NoPath)
       => IsPrefix(Owner(file_path), file_dir)
    /\ (/\ last.op = "diagnostic_messages"
        /\ last.pre.lean_project_path = NoPath
        /\ IsAbs(last.arg)
        /\ last.outcome # "invalid_path")
       => /\ lean_project_path = Owner(last.arg)
          /\ lean_project_path # NoPath
          /\ last.outcome # "start_failed" =>
                last.rel = SubSeq(last.arg, Len(lean_project_path) + 1, Len(last.arg))

\* C5 witness: /p/a/b/g.lean, markers at /p and /p/a, no root bound: root /p/a and
\* relative path b/g.lean.
C5_Witness ==
    /\ last.op = "diagnostic_messages"
    /\ last.arg = FileG
    /\ last.pre.lean_project_path = NoPath
    /\ last.outcome = "ok"
    /\ lean_project_path = DirA
    /\ last.rel = <<"b", "g.lean">>

\* C6: a rebuild closes the session the context holds and empties the cache before
\* the clean step and before the new session is started, whether or not the build
\* succeeds; no fingerprint recorded before the call is left when it returns.
C6_RebuildClearsFirst ==
    last.op = "lsp_build" =>
       /\ last.pre.client # NoClient =>
             /\ \E i \in EventsOf({"close"}) : last.events[i].conn = last.pre.client
             /\ EventsOf({"clear"}) # {}
             /\ ~IsLive(conns, last.pre.client)
       /\ \A i \in EventsOf({"close", "clear"}), j \in EventsOf({"clean", "open"}) : i < j
       /\ \A p \in DOMAIN last.pre.file_content_hashes : p \notin DOMAIN file_content_hashes

\* C6 witness: a rebuild with a clean step whose build failed, from a context that
\* held a live session and fingerprints.
C6_Witness ==
    /\ last.op = "lsp_build"
    /\ last.outcome = "error"
    /\ last.pre.live
    /\ last.pre.file_content_hashes # <<>>
    /\ EventsOf({"clean"}) # {}
    /\ \E i \in EventsOf({"open"}) : ~last.events[i].flag
    /\ file_content_hashes = <<>>

\* C7: when the start of the new session throws during a rebuild, the value
\* returned holds the error text and the output captured up to the failure.
C7_FailedBuildReturnsCapturedOutput ==
    (/\ last.op = "lsp_build"
     /\ \E i \in EventsOf({"open"}) : ~last.events[i].flag)
    => /\ last.outcome = "error"
       /\ last.output = last.captured

\* C8: in ensureBound the start without a build is attempted exactly once after a
\* failed start with a build and never otherwise; when it succeeds, ensureBound
\* raises nothing and the context holds a live session of the requested root.
C8_NoBuildFallback ==
    last.op = "diagnostic_messages" =>
       /\ \A i \in EventsOf({"open_nobuild"}) :
             /\ i > 1
             /\ last.events[i - 1].kind = "open"
             /\ ~last.events[i - 1].flag
       /\ \A i \in EventsOf({"open"}) :
             ~last.events[i].flag =>
                /\ i + 1 \in EventsOf({"open_nobuild"})
                /\ Cardinality(EventsOf({"open_nobuild"})) = 1
       /\ \A i \in EventsOf({"open_nobuild"}) :
             last.events[i].flag =>
                /\ last.outcome # "start_failed"
                /\ client = last.events[i].conn
                /\ IsLive(conns, client)
                /\ conns[client].project_path = lean_project_path
                /\ last.events[i].path = lean_project_path

\* C8 witness: the start with a build failed, the start without one succeeded, and
\* the request was answered.
C8_Witness ==
    /\ last.op = "diagnostic_messages"
    /\ last.outcome = "ok"
    /\ \E i \in EventsOf({"open_nobuild"}) : last.events[i].flag
    /\ \E i \in EventsOf({"open"}) : ~last.events[i].flag
    /\ IsLive(conns, client)

\* C9: when the requested file resolves under the bound root and a live session
\* targets that root, ensureBound opens nothing, closes nothing and leaves the
\* bound root, the session and the cache as they were.
C9_EnsureBoundNoOp ==
    (/\ last.op = "diagnostic_messages"
     /\ last.rel # NoPath
     /\ last.pre.lean_project_path # NoPath
     /\ Beneath(ResolvedFile, last.pre.lean_project_path)
     /\ last.pre.live
     /\ conns[last.pre.client].project_path = last.pre.lean_project_path)
    => /\ EventsOf({"open", "open_nobuild", "close", "clear"}) = {}
       /\ lean_project_path = last.pre.lean_project_path
       /\ client = last.pre.client
       /\ IsLive(conns, client)
       /\ last.bound_hashes = last.pre.file_content_hashes

\* C9 witness: a second request for a file of the bound root, answered over the
\* session the first request started.
C9_Witness ==
    /\ last.op = "diagnostic_messages"
    /\ last.outcome = "ok"
    /\ last.pre.live
    /\ last.pre.lean_project_path = DirA
    /\ last.arg = FileG
    /\ last.pre.file_content_hashes # <<>>
    /\ client = last.pre.client

\* The step is a request that ran update_file to its end: the file it read.
SyncedFile == abspath(join(lean_project_path', last'.rel))

Synced ==
    /\ last' # last
    /\ last'.op = "diagnostic_messages"
    /\ last'.outcome \in {"ok", "query_failed"}

\* C10: when the content on disk differs from the content the last sync of the
\* path read (and the path still has its cache entry), the sync sends exactly one
\* invalidation, for that path, to the session, stores the fingerprint of the new
\* content, leaves the other entries alone and returns the content on disk; a sync
\* that finds the content as the last sync read it sends none.
C10_DriftInvalidatesOnce ==
    [][Synced =>
         LET r == last'
             before == r.bound_hashes
             inv == {i \in DOMAIN r.events : r.events[i].kind = "invalidate"}
         IN /\ r.content = disk[SyncedFile]
            /\ file_content_hashes'[r.rel] = hash(disk[SyncedFile])
            /\ \A p \in DOMAIN before : p # r.rel => file_content_hashes'[p] = before[p]
            /\ (r.rel \in DOMAIN before /\ synced_content[r.rel] # disk[SyncedFile]) =>
                  /\ Cardinality(inv) = 1
                  /\ \A i \in inv : r.events[i].path = r.rel /\ r.events[i].conn = client'
                  /\ file_content_hashes'[r.rel] # before[r.rel]
            /\ (r.rel \in DOMAIN before /\ synced_content[r.rel] = disk[SyncedFile]) =>
                  inv = {}
    ]_vars

\* C10 witness: g.lean was synced, edited on disk, and synced again with one
\* invalidation and the new content.
C10_Witness ==
    /\ last.op = "diagnostic_messages"
    /\ last.outcome = "ok"
    /\ last.rel \in DOMAIN last.bound_hashes
    /\ last.bound_hashes[last.rel] = hash("c1")
    /\ last.content = "c2"
    /\ Cardinality(EventsOf({"invalidate"})) = 1
    /\ file_content_hashes[last.rel] = hash("c2")

\* C11: a sync of a path whose content on disk is what the previous sync of that
\* path read returns that same content, sends no invalidation and leaves the
\* fingerprint cache exactly as it found it.
C11_UnchangedSyncIsIdempotent ==
    [][(/\ Synced
        /\ last'.rel \in DOMAIN last'.bound_hashes
        /\ synced_content[last'.rel] = disk[SyncedFile]) =>
         LET r == last'
             inv == {i \in DOMAIN r.events : r.events[i].kind = "invalidate"}
         IN /\ r.content = synced_content[r.rel]
            /\ inv = {}
            /\ file_content_hashes' = r.bound_hashes
            /\ file_content_hashes' = file_content_hashes
    ]_vars

\* C11 witness: g.lean was edited to c2 and synced, and the request just served
\* synced it again: same content, no invalidation, same cache.
C11_Witness ==
    /\ last.op = "diagnostic_messages"
    /\ last.outcome = "ok"
    /\ last.content = "c2"
    /\ last.rel \in DOMAIN last.pre.file_content_hashes
    /\ last.pre.file_content_hashes[last.rel] = hash("c2")
    /\ last.pre.file_content_hashes = file_content_hashes
    /\ EventsOf({"invalidate"}) = {}

\* ------------------------------------------------------ rate limiter
\* The step is a call of a rate-limited tool of this category.
RateCall(category) ==
    /\ rl' # rl \/ rate_limit' # rate_limit
    /\ rl'.category = category

\* The entries of ts in the window of per_seconds seconds that ends at t.
InWindow(ts, t) == {i \in DOMAIN ts : ts[i] > t - per_seconds /\ ts[i] <= t}

\* C12: with 3 requests per 30 seconds, the timestamps a category holds after a call
\* never number more than 3 in any window of 30 seconds; of the calls made at one
\* time t into an empty window the first three are admitted and the fourth is
\* refused; a call made when every earlier admission lies 30 seconds or more back
\* is admitted.
C12_SlidingWindowLimit ==
    [][\A category \in Categories : RateCall(category) =>
          LET held == rate_limit[category]
              ts == rate_limit'[category]
              atNow == {i \in DOMAIN held : held[i] = clock}
          IN /\ \A i \in DOMAIN ts : Cardinality(InWindow(ts, ts[i])) <= max_requests
             /\ (InWindow(held, clock) = atNow /\ Cardinality(atNow) < max_requests)
                   => rl'.admitted
             /\ Cardinality(atNow) >= max_requests => ~rl'.admitted
             /\ (\A i \in DOMAIN held : held[i] + per_seconds <= clock) => rl'.admitted
    ]_vars

\* C12 witness: three calls were admitted at time 0, and the call just made, 30
\* seconds later, was admitted.
C12_Witness ==
    /\ rl.admitted
    /\ rl.before = <<0, 0, 0>>
    /\ clock = per_seconds
    /\ rate_limit[rl.category] = <<clock>>

\* C13: a call is refused exactly when, the timestamps at or before now - 30 dropped,
\* the category holds 3 or more. A refused call leaves the remaining timestamps as
\* they are, does not enter the tool (no request to a service, no change to the root,
\* the client, the connections or the cache, nothing raised) and returns the
\* retry-later message; an admitted call appends the current time once.
C13_RejectionRecordsNothing ==
    [][\A category \in Categories : RateCall(category) =>
          LET pruned == SelectSeq(rate_limit[category], LAMBDA t : t > clock - per_seconds)
          IN /\ rl'.admitted <=> (Len(pruned) < max_requests)
             /\ ~rl'.admitted =>
                   /\ rate_limit'[category] = pruned
                   /\ rl'.outcome = "limit"
                   /\ UNCHANGED <<lean_project_path, client, file_content_hashes, conns,
                                  pc, tool, last>>
             /\ rl'.admitted =>
                   /\ rate_limit'[category] = Append(pruned, clock)
                   /\ rl'.outcome # "limit"
    ]_vars

\* C13 witness: state_search ran against a started client three times within the
\* window, and the call just made was refused.
C13_Witness ==
    /\ ~rl.admitted
    /\ rl.category \in FileCategories
    /\ Len(rl.before) = max_requests
    /\ rate_limit[rl.category] = rl.before
    /\ last.op = rl.category
    /\ client # NoClient
    /\ clock > 0

\* ------------------------------------------------------ failures
\* The step is a diagnostic_messages request that came to its end, one way or another.
Served == last' # last /\ last'.op = "diagnostic_messages"

\* C14: every tool request completes with a returned value, no exception leaves the
\* handler, whatever the context (root bound without a client, both starts of the
\* client failing, a file that became unreadable).
C14_NoUnhandledException == ~last.raised

\* C15: a request that reaches update_file for a file that cannot be read ends with
\* the read failure (the exception of open) and with nothing else: the cache is as
\* setup_client_for_file left it, no invalidation and no query was sent.
C15_UnreadableLeavesCacheAlone ==
    [][(/\ Served
        /\ last'.rel # NoPath
        /\ disk[SyncedFile] \notin Contents) =>
         LET r == last'
         IN /\ r.outcome = "unreadable"
            /\ r.raised
            /\ file_content_hashes' = r.bound_hashes
            /\ \A i \in DOMAIN r.events : r.events[i].kind \notin {"invalidate", "query"}
    ]_vars

\* C15 witness: g.lean was synced, made unreadable, and requested again.
C15_Witness ==
    /\ last.op = "diagnostic_messages"
    /\ last.outcome = "unreadable"
    /\ last.rel \in DOMAIN file_content_hashes
    /\ file_content_hashes = last.pre.file_content_hashes
    /\ disk[FileG] = Unreadable

\* C16: when the invalidation a sync sends fails, the request still gets the content
\* on disk, the new fingerprint is stored, and the query is issued after it; the
\* request fails only if the query itself does.
C16_InvalidationFailureSwallowed ==
    [][(/\ Served
        /\ \E i \in DOMAIN last'.events :
              last'.events[i].kind = "invalidate" /\ ~last'.events[i].flag) =>
         LET r == last'
             n == Len(r.events)
         IN /\ r.outcome \in {"ok", "query_failed"}
            /\ r.content = disk[SyncedFile]
            /\ file_content_hashes'[r.rel] = hash(r.content)
            /\ r.events[n].kind = "query" /\ r.events[n].path = r.rel
            /\ r.events[n - 1].kind = "invalidate"
            /\ r.raised <=> ~r.events[n].flag
    ]_vars

\* C16 witness: the invalidation failed and the query was answered.
C16_Witness ==
    /\ last.op = "diagnostic_messages"
    /\ last.outcome = "ok"
    /\ \E i \in EventsOf({"invalidate"}) : ~last.events[i].flag
    /\ last.content = "c2"

\* C17: a rebuild with clean goes on to start a client with an initial build whatever
\* the clean step did (exit status, or not starting at all).
C17_CleanFailureDoesNotAbort ==
    (last.op = "lsp_build" /\ EventsOf({"clean"}) # {}) => EventsOf({"open"}) # {}

\* C18: no connection is closed twice, and teardown closes the client if it is live
\* and nothing otherwise.
C18_NoDoubleClose ==
    /\ \A id \in DOMAIN conns : conns[id].status # "reclosed"
    /\ last.op = "teardown" =>
          Cardinality(EventsOf({"close"})) = (IF last.pre.live THEN 1 ELSE 0)

\* C20: once run_code has ended, by a return or by an exception, the scratch file is
\* not in the root it was written to.
C20_ScratchRemoved ==
    last.op = "run_code" => last.pre.lean_project_path \notin scratch

\* ------------------------------------------------------ concurrency
\* C19: with two requests served at the same time, no state has two live clients;
\* when both requests have ended no live client is left that the context does not
\* hold; and every fingerprint in the cache was stored while the context held the
\* client it holds now.
C19_RequestsSerialized ==
    /\ Cardinality(LiveConns(conns)) <= 1
    /\ (\A t \in Threads : threads[t].pc = "idle") =>
          \A id \in LiveConns(conns) : id = client
    /\ \A p \in DOMAIN file_content_hashes : hash_client[p] = client

\* ------------------------------------------------------ run_code and the cache
\* C21: run_code leaves the fingerprint cache as it found it, and the scratch file
\* has no entry in it.
C21_RunCodeLeavesCacheAlone ==
    last.op = "run_code" =>
        /\ file_content_hashes = last.pre.file_content_hashes
        /\ last.rel \notin DOMAIN file_content_hashes

\* C21 witness: run_code wrote its file and queried a client whose cache held
\* g.lean.
C21_Witness ==
    /\ last.op = "run_code"
    /\ EventsOf({"query"}) # {}
    /\ last.pre.file_content_hashes # <<>>

\* ------------------------------------------------------ rate limit categories
\* C22: a call of a tool of one category leaves the timestamps of every other
\* category as they are, and whether it is admitted is what the wrapper decides from
\* that category's timestamps, the time and the limits alone, whatever the other
\* categories hold.
C22_CategoriesIndependent ==
    [][\A category \in Categories : RateCall(category) =>
          LET alone == [c \in Categories |->
                           IF c = category THEN rate_limit[c] ELSE <<>>]
          IN /\ \A c \in Categories \ {category} : rate_limit'[c] = rate_limit[c]
             /\ rl'.admitted =
                   rate_limited(alone, category, max_requests, per_seconds, clock).admitted
             /\ rate_limit'[category] =
                   rate_limited(alone, category, max_requests, per_seconds,
                                clock).rate_limit[category]
    ]_vars

\* C22 witness: state_search has used up its window, holds a stale timestamp too
\* at a later time, and a call of leansearch was admitted.
C22_Witness ==
    /\ rl.category = "leansearch"
    /\ rl.admitted
    /\ Len(rate_limit["lean_state_search"]) = max_requests
    /\ \E i \in DOMAIN rate_limit["lean_state_search"] :
          rate_limit["lean_state_search"][i] <= clock - per_seconds

\* C26: after a call of a tool of a category, admitted or refused, every timestamp
\* the category holds is later than now - 30 and there are at most 3 of them; and the
\* timestamps of a category change in no other step.
C26_PrunedAfterEveryCheck ==
    [][\A category \in Categories :
          /\ RateCall(category) =>
                /\ \A i \in DOMAIN rate_limit'[category] :
                      rate_limit'[category][i] > clock - per_seconds
                /\ Len(rate_limit'[category]) <= max_requests
          /\ rate_limit'[category] # rate_limit[category] =>
                RateCall(category) /\ clock' = clock
    ]_vars

\* C26 witness: the call found a timestamp 30 seconds old or older and dropped it.
C26_Witness ==
    /\ rl.category \in Categories
    /\ \E i \in DOMAIN rl.before : rl.before[i] <= clock - per_seconds
    /\ \A i \in DOMAIN rate_limit[rl.category] :
          rate_limit[rl.category][i] > clock - per_seconds
    /\ Len(rl.before) = max_requests

\* ------------------------------------------------------ utils.py
\* C23: format_line returns the line unchanged when no column is given and
\* the line with the cursor tag inserted at the 1-indexed column when the
\* column lies within the line, for every 1-indexed line from 1 to the number
\* of lines; it returns an error value, and never raises, exactly when the
\* line or the column is out of bounds.
C23_MarkerAtEveryLine ==
    pure.fn = "format_line" =>
        LET lines == splitlines(pure.args[1])
            n == pure.args[2]
            column == pure.args[3]
            lineOK == 1 <= n /\ n <= Len(lines)
            line == lines[n]
        IN /\ pure.result.kind # "raise"
           /\ lineOK /\ column = NoColumn => pure.result = Text(line)
           /\ lineOK /\ 1 <= column /\ column <= Len(line) =>
                 pure.result = Text(SubSeq(line, 1, column - 1) \o <<cursor_tag>>
                                    \o SubSeq(line, column, Len(line)))
           /\ ~lineOK => pure.result.kind = "error"
           /\ lineOK /\ column # NoColumn /\ (column < 1 \/ column > Len(line) + 1) =>
                 pure.result.kind = "error"

\* the number of characters of the content before its line l (0-indexed)
RECURSIVE Offset(_, _)
Offset(lines, l) == IF l = 0 THEN 0 ELSE Offset(lines, l - 1) + Len(lines[l]) + 1

\* C24: for a range whose start line is not after its end line, extract_range
\* returns the out-of-bounds error when the end line is past the last line,
\* and otherwise the piece of the content from the start position to the end
\* position (a character past the end of its line counts as the end of the
\* line): the substring of the line for a range on one line, and for a range
\* over several lines the lines joined with line breaks, the first cut from
\* the start character and the last cut at the end character.  For "abc\ndef"
\* and (0,1)-(1,2) it returns "bc\nde".
C24_ExtractRangeIsSubstring ==
    pure.fn = "extract_range" =>
        LET content == pure.args[1]
            range == pure.args[2]
            lines == splitlines(content)
            from == Offset(lines, range.start.line)
                    + Min(range.start.character, Len(lines[range.start.line + 1]))
            to == Offset(lines, range.end.line)
                  + Min(range.end.character, Len(lines[range.end.line + 1]))
        IN /\ range.start.line <= range.end.line =>
                 IF range.end.line >= Len(lines)
                 THEN pure.result = ErrorValue("Range out of bounds")
                 ELSE pure.result = Text(IF from >= to THEN <<>>
                                         ELSE SubSeq(content, from + 1, to))
           /\ content = Example /\ range = Range(0, 1, 1, 2) =>
                 pure.result = Text(<<"b", "c", "\n", "d", "e">>)
C24_Witness ==
    /\ pure.fn = "extract_range"
    /\ pure.args = <<Example, Range(0, 1, 1, 2)>>
    /\ pure.result = Text(<<"b", "c", "\n", "d", "e">>)

\* the claimed test: the line is between the item's start and end lines and,
\* with a column, the column is from the start character up to, not
\* including, the end character
Covers(d, line, column) ==
    /\ line \in d.range.start.line .. d.range.end.line
    /\ column # NoColumn => column \in d.range.start.character .. (d.range.end.character - 1)
\* the k-th smallest member of a set of indices
Kth(S, k) == CHOOSE i \in S : Cardinality({j \in S : j <= i}) = k

\* C25: filter_diagnostics_by_position returns, in their original order,
\* exactly the items whose start line <= line <= end line and, when a column
\* is given, whose start character <= column < end character.
C25_FilterKeepsCoveringItems ==
    pure.fn = "filter_diagnostics_by_position" =>
        LET diagnostics == pure.args[1]
            kept == {i \in DOMAIN diagnostics : Covers(diagnostics[i], pure.args[2], pure.args[3])}
            out == pure.result.text
        IN /\ pure.result.kind = "text"
           /\ Len(out) = Cardinality(kept)
           /\ \A k \in DOMAIN out : out[k] = diagnostics[Kth(kept, k)]
C25_Witness ==
    /\ pure.fn = "filter_diagnostics_by_position"
    /\ pure.args = <<<<Diagnostic("d2", Range(1, 0, 3, 2)), Diagnostic("d1", Range(2, 5, 2, 10)),
                       Diagnostic("d1", Range(2, 5, 2, 10))>>, 2, 7>>
    /\ Len(pure.result.text) = 2

\* ------------------------------------------------------ first sync
\* C27: the first sync of a path with no cache entry records the fingerprint
\* of the content it read and sends no invalidation, and after any sync that
\* returned content the path's entry is the fingerprint of that content.
C27_FirstSyncRecords ==
    [][Synced =>
         LET r == last'
             inv == {i \in DOMAIN r.events : r.events[i].kind = "invalidate"}
         IN /\ r.rel \in DOMAIN file_content_hashes'
            /\ file_content_hashes'[r.rel] = hash(r.content)
            /\ r.rel \notin DOMAIN r.bound_hashes =>
                  /\ inv = {}
                  /\ r.content = disk[SyncedFile]
                  /\ DOMAIN file_content_hashes' = DOMAIN r.bound_hashes \cup {r.rel}
    ]_vars

\* C27 witness: a path was synced for the first time while another path was
\* already cached; it has its entry and nothing was invalidated.
C27_Witness ==
    /\ last.op = "diagnostic_messages"
    /\ last.outcome = "ok"
    /\ last.bound_hashes # <<>>
    /\ last.rel \notin DOMAIN last.bound_hashes
    /\ file_content_hashes[last.rel] = hash(last.content)
    /\ EventsOf({"invalidate"}) = {}

\* ------------------------------------------------------ session and root
\* C28: after any request completes, when the context holds both a root and a
\* client, the client's project path is the root; in particular after a
\* rebuild that was given a new project path and whose build failed.
C28_SessionMatchesRoot ==
    (pc = "idle" /\ lean_project_path # NoPath /\ client # NoClient) =>
        conns[client].project_path = lean_project_path

\* C29: after any request completes, the client the context holds has not
\* been closed, and no query of the request was issued on a closed client.
C29_NoClosedSessionHeld ==
    pc = "idle" =>
        /\ client # NoClient => IsLive(conns, client)
        /\ \A i \in EventsOf({"query"}) : IsLive(conns, last.events[i].conn)

\* ------------------------------------------------------ failed invalidation
\* C30: the fingerprint is stored before the invalidation is attempted, so a
\* sync of a path whose latest invalidation failed, with the content on disk
\* as the last sync of the path read it, finds equal fingerprints and sends no
\* invalidation: the failed invalidation is not retried and stays failed.
C30_FailedInvalidationNotRetried ==
    [][(/\ Synced
        /\ last'.rel \in unretried
        /\ last'.rel \in DOMAIN last'.bound_hashes
        /\ synced_content[last'.rel] = disk[SyncedFile]) =>
         LET r == last'
             inv == {i \in DOMAIN r.events : r.events[i].kind = "invalidate"}
         IN /\ r.bound_hashes[r.rel] = hash(disk[SyncedFile])
            /\ inv = {}
            /\ r.rel \in unretried'
    ]_vars

\* C30 witness: the request just served synced a path whose latest
\* invalidation had failed, sent no invalidation and was answered.
C30_Witness ==
    /\ last.op = "diagnostic_messages"
    /\ last.outcome = "ok"
    /\ last.rel \in unretried
    /\ last.rel \in DOMAIN last.bound_hashes
    /\ EventsOf({"invalidate"}) = {}
    /\ file_content_hashes[last.rel] = hash(last.content)

\* ------------------------------------------------------ admission before the tool
\* The outcomes of an admitted call of a tool that takes a file path which
\* returned early or whose request to the service failed.
EarlyOrFailed == {"invalid_path", "no_goals", "net_error"}

\* the call rl' describes is an admitted call of category whose timestamp, the
\* current time, is the last entry of the category after the stale ones were
\* dropped
Recorded(category) ==
    /\ rl'.category = category
    /\ rl'.admitted
    /\ rate_limit'[category] =
          Append(SelectSeq(rl'.before, LAMBDA t : t > clock' - per_seconds), clock')

\* C31: for the rate-limited tools that take a file path the timestamp of an
\* admitted call is recorded before the tool runs: it is in the category's
\* sequence while the upward search for the root is under way, and when the
\* call ends, whatever its outcome (path not resolved, no goal at the
\* position, request to the service failed, results returned, exception).
C31_AdmissionCountsWhateverTheOutcome ==
    [][/\ (pc' = "walk" /\ tool' \in FileCategories) => Recorded(tool')
       /\ (last' # last /\ last'.op \in FileCategories) => Recorded(last'.op)
    ]_vars

\* C31 witness: the third admitted call of state_search within the window
\* returned early or failed on the network, and the call made after it was
\* refused: the quota was used up.
C31_Witness ==
    /\ last.op = "lean_state_search"
    /\ last.outcome \in EarlyOrFailed
    /\ rl.category = "lean_state_search"
    /\ ~rl.admitted
    /\ Len(rl.before) = max_requests
    /\ rl.before[max_requests] = clock
    /\ rate_limit["lean_state_search"] = rl.before
====
